---- MODULE Spec2Model ----
(***************************************************************************)
(* The argol front end: the recursive-descent parser of src/parser.rs,     *)
(* run over a located token sequence.                                      *)
(*                                                                         *)
(* The parser reads its token slice through a Peekable iterator and never  *)
(* looks further than one token past the one it consumes, so the slice is  *)
(* revealed to the model one token at a time (action Feed): `tokens` is    *)
(* the part of the slice the parser has been able to see, `eof` says that  *)
(* the slice ends there.  A run of the model is the run of Parser::parse   *)
(* on one token slice of at most MaxTokens tokens.                         *)
(*                                                                         *)
(* A returned error (or a panic) stops the run: the step that raises it    *)
(* sets `result` and leaves the parser's position and locals as they were  *)
(* at the failing point.                                                   *)
(***************************************************************************)
EXTENDS Naturals, Sequences, FiniteSets, TLC

\* Longest token slice explored.
MaxTokens == 10

VARIABLES
    tokens,     \* the token slice seen so far (Parser::tokens, the backing slice)
    eof,        \* TRUE once the slice is known to end after `tokens`
    pos,        \* index of the token that Peekable::peek() returns next
    pc,         \* the function/loop the parser is in
    has_tok,    \* Parser::parse's local `has_tok`
    stack,      \* one frame per active parse_block call, innermost last
    root,       \* Parser::root
    hdr,        \* locals of the active parse_block_header call
    stmt,       \* locals of the active parse_statement call
    result,     \* what Parser::parse returned, once it has
    tips,       \* the tips printed by print_semantic_tip, in order
    cli,        \* main: its arguments, its locals and the process's exit status
    content,    \* the text of the file seen so far (tokenize's `content`)
    content_end,\* TRUE once the text is known to end after `content`
    lex,        \* tokenize's locals: chars, line, col, tokens (and the string's)
    num,        \* locals of the active parse_number / parse_prefixed_int call
    lexed       \* how tokenize ended, once it has

parser_vars == <<tokens, eof, pos, pc, has_tok, stack, root, hdr, stmt, result, tips>>

lexer_vars == <<content, content_end, lex, num, lexed>>

vars == <<tokens, eof, pos, pc, has_tok, stack, root, hdr, stmt, result, tips,
          cli, lexer_vars>>

-----------------------------------------------------------------------------
(* Tokens *)

\* common/tokens.rs: TokenKind
TokenKind ==
    { "ExclusiveRange", "InclusiveRange", "Minus", "Plus", "SemiColon", "Action",
      "Int", "Directive", "Float", "Comma", "OpenBrace", "CloseBrace", "Alt", "Eq",
      "Keyword", "Boolean", "Wildcard", "Type", "String", "Identifier" }

\* common/tokens.rs: ASSIGNMENT_KINDS, the kinds a statement value may have
ASSIGNMENT_KINDS ==
    { "String", "Boolean", "Float", "Int", "ExclusiveRange", "InclusiveRange",
      "Wildcard", "Type", "Action" }

is_statement_kind(kind) == kind \in ASSIGNMENT_KINDS

\* The (kind, lexeme) pairs the token slices are drawn from.
Vocabulary ==
    { <<"Directive", "!version">>,
      <<"Keyword", "command">>, <<"Keyword", "pos">>,
      <<"Identifier", "a">>, <<"Identifier", "b">>, <<"Identifier", "xx">>,
      <<"Eq", "=">>, <<"Alt", "/">>, <<"Comma", ",">>, <<"SemiColon", ";">>,
      <<"OpenBrace", "{">>, <<"CloseBrace", "}">>,
      <<"String", "1.0.0">>, <<"Int", "1">> }

Token(kind, lexeme, line, col) ==
    [kind |-> kind, lexeme |-> lexeme, line |-> line, col |-> col]

\* Token::len
TokenLen(tok) ==
    IF tok.kind = "String" THEN Len(tok.lexeme) + 2 ELSE Len(tok.lexeme)

\* The tokens of one line of source text, separated by single spaces: the
\* column of the token that follows `toks`.
NextCol(toks) ==
    IF toks = <<>> THEN 1
    ELSE toks[Len(toks)].col + TokenLen(toks[Len(toks)]) + 1

HasTok(i) == i <= Len(tokens)

-----------------------------------------------------------------------------
(* Results, locations, tree nodes *)

Loc(line, col) == [line |-> line, col |-> col]

\* Parser::get_loc
get_loc(tok) == Loc(tok.line, tok.col)

Running == [status |-> "running", class |-> "", kind |-> "", loc |-> Loc(0, 0), names |-> {}]

Ok == [status |-> "ok", class |-> "", kind |-> "", loc |-> Loc(0, 0), names |-> {}]

\* A panic of the Rust runtime (Option::unwrap on None)
Panic == [status |-> "panic", class |-> "", kind |-> "", loc |-> Loc(0, 0), names |-> {}]

Syntax(kind, loc) ==
    [status |-> "err", class |-> "Syntax", kind |-> kind, loc |-> loc, names |-> {}]

Semantic(kind, loc, names) ==
    [status |-> "err", class |-> "Semantic", kind |-> kind, loc |-> loc, names |-> names]

\* ast.rs: Block
Block(keyword) ==
    [keyword |-> keyword, identifiers |-> <<>>, statements |-> <<>>, blocks |-> <<>>]

\* ast.rs: Statement
Statement(key, value, kind, ident_kind) ==
    [key |-> key, value |-> value, kind |-> kind, ident_kind |-> ident_kind]

\* Option<Loc>
NoLoc == [some |-> FALSE, loc |-> Loc(0, 0)]

SomeLoc(loc) == [some |-> TRUE, loc |-> loc]

\* Vec<String>::join(",")
RECURSIVE Join(_)
Join(strs) ==
    IF strs = <<>> THEN ""
    ELSE IF Len(strs) = 1 THEN strs[1]
    ELSE strs[1] \o "," \o Join(Tail(strs))

-----------------------------------------------------------------------------
(* Initial state: Parser::new *)

NoHeader ==
    [exp_alt |-> TRUE, short_names |-> {}, unique_names |-> {},
     duplicate_names |-> {}, error_loc |-> NoLoc]

NullToken == Token("", "", 0, 0)

NoStatement ==
    [ident_tok |-> NullToken, is_dir |-> FALSE, parent |-> "None",
     prev_tok |-> NullToken, str_vals |-> <<>>, val_kind |-> "None"]

\* Parser::new, and the locals of Parser::parse before its loop
ParserNew ==
    /\ tokens = <<>>
    /\ eof = FALSE
    /\ pos = 1
    /\ pc = "parse"
    /\ has_tok = FALSE
    /\ stack = <<>>
    /\ root = Block("root")
    /\ hdr = NoHeader
    /\ stmt = NoStatement
    /\ tips = <<>>

\* main.rs: main's arguments and locals.  `extension` is what
\* Path::extension returns for args[1]: "None", or the text after the last dot
\* of the file name.
Cli(args_len, exists, extension) ==
    [pc |-> "args", args_len |-> args_len, exists |-> exists,
     extension |-> extension, err |-> FALSE, exited |-> FALSE, code |-> 0]

\* main at its call of parse (line 38), for a run of the parser alone
CliAtParse == [Cli(2, TRUE, "argol") EXCEPT !.pc = "parse"]

\* tokenize's locals before its loop (lines 39-42), with those of its string
\* and word branches; `first` is the place in the text where the current turn
\* of the main loop began
LexNew ==
    [pc |-> "scan", chars |-> 1, line |-> 1, col |-> 1, tokens |-> <<>>,
     lexeme |-> <<>>, in_escape |-> FALSE, first |-> 1, spans |-> <<>>]

LexRunning == [status |-> "running", msg |-> "", loc |-> Loc(0, 0)]

\* parse_number's locals: lines 229-244 (and has_exp of line 439, has_digit of
\* parse_prefixed_int)
NewNumber(line, col) ==
    [start_col |-> col, start_line |-> line, lexeme |-> <<>>, is_float |-> FALSE,
     has_digits_before_dot |-> FALSE, has_digits_after_dot |-> FALSE,
     has_sign |-> FALSE, invalid_range |-> FALSE, range_has_dot |-> FALSE,
     range_has_eq |-> FALSE, range_has_sign |-> FALSE, range_has_star |-> FALSE,
     begins_with_star |-> FALSE, insert_pos |-> 0, has_exp |-> FALSE,
     has_digit |-> FALSE, prefix |-> ""]

NoNumber == NewNumber(0, 0)

LexerNew ==
    /\ content = <<>>
    /\ content_end = FALSE
    /\ lex = LexNew
    /\ num = NoNumber
    /\ lexed = LexRunning

Init ==
    /\ ParserNew
    /\ result = Running
    /\ cli = CliAtParse
    /\ LexerNew

-----------------------------------------------------------------------------
(* The token slice *)

\* How many tokens past tokens[pos] the next step of the parser reads:
\* expect_next consumes tokens[pos] and peeks at tokens[pos + 1].
Need ==
    IF pc \in {"block", "statement"} THEN 1
    ELSE IF pc = "values" /\ stmt.is_dir /\ HasTok(pos) /\ tokens[pos].kind = "String"
         THEN 1
    ELSE 0

\* The parser's next step reads nothing that is not known yet.
Ready == eof \/ Len(tokens) >= pos + Need

\* The slice goes on with one more token, or ends here.
Feed ==
    /\ result.status = "running"
    /\ ~Ready
    /\ \/ /\ Len(tokens) < MaxTokens
          /\ \E v \in Vocabulary :
                tokens' = Append(tokens, Token(v[1], v[2], 1, NextCol(tokens)))
          /\ eof' = FALSE
       \/ /\ eof' = TRUE
          /\ tokens' = tokens
    /\ UNCHANGED <<pos, pc, has_tok, stack, root, hdr, stmt, result, tips>>
    /\ UNCHANGED <<cli, lexer_vars>>

-----------------------------------------------------------------------------
(* Parser::expect_next *)

\* expect_next without the comparison of the next token's kind
expect_next_any_kind(exp) ==
    IF HasTok(pos + 1)
    THEN [ok |-> TRUE, tok |-> tokens[pos + 1]]
    ELSE [ok |-> FALSE,
          err |-> Syntax("NoToken",
                         IF HasTok(pos) THEN get_loc(tokens[pos]) ELSE Loc(0, 0))]

\* expect_next(exp): consumes the current token, then peeks.  The result is
\* Ok(next_tok.clone()) or an error; in both cases the cursor has moved by one.
expect_next(exp) ==
    LET cur_some == HasTok(pos)
        peek_some == HasTok(pos + 1)
    IN  IF peek_some
        THEN LET next_tok == tokens[pos + 1]
             IN  IF next_tok.kind # exp
                 THEN IF exp = "SemiColon"
                      THEN [ok |-> FALSE,
                            err |-> IF cur_some
                                    THEN Syntax("UnexpectedToken",
                                                Loc(tokens[pos].line,
                                                    tokens[pos].col + TokenLen(tokens[pos]) - 1))
                                    ELSE Panic]
                      ELSE [ok |-> FALSE,
                            err |-> Syntax("UnexpectedToken", get_loc(next_tok))]
                 ELSE [ok |-> TRUE, tok |-> next_tok]
        ELSE [ok |-> FALSE,
              err |-> Syntax("NoToken",
                             IF cur_some THEN get_loc(tokens[pos]) ELSE Loc(0, 0))]

-----------------------------------------------------------------------------
(* Parser::parse *)

\* parse_finish without the has_tok test
parse_finish_always_ok(seen) == Ok

\* parse, after its loop: lines 60-74
parse_finish(seen) ==
    IF seen THEN Ok ELSE Syntax("NoToken", Loc(0, 0))

Frame(kw_tok, parent) ==
    [kw_tok |-> kw_tok, block |-> Block(kw_tok.lexeme), empty_block |-> FALSE,
     parent |-> parent]

NewStatement(ident_tok, is_dir, parent) ==
    [ident_tok |-> ident_tok, is_dir |-> is_dir, parent |-> parent,
     prev_tok |-> NullToken, str_vals |-> <<>>, val_kind |-> "None"]

\* One turn of parse's loop (lines 41-58), or its end (lines 60-74).
ParseTop ==
    /\ result.status = "running"
    /\ pc = "parse"
    /\ Ready
    /\ IF ~HasTok(pos)
       THEN /\ result' = parse_finish(has_tok)
            /\ UNCHANGED <<pc, has_tok, stack, stmt>>
       ELSE LET tok == tokens[pos]
            IN  /\ has_tok' = TRUE
                /\ IF tok.kind = "Directive"
                   THEN /\ pc' = "statement"
                        /\ stmt' = NewStatement(tok, TRUE, "None")
                        /\ UNCHANGED <<stack, result>>
                   ELSE IF tok.kind = "Keyword"
                   THEN /\ pc' = "block"
                        /\ stack' = Append(stack, Frame(tok, "None"))
                        /\ UNCHANGED <<stmt, result>>
                   ELSE /\ result' = Syntax("UnexpectedToken", get_loc(tok))
                        /\ UNCHANGED <<pc, stack, stmt>>
    /\ UNCHANGED <<tokens, eof, pos, root, hdr, tips>>
    /\ UNCHANGED <<cli, lexer_vars>>

-----------------------------------------------------------------------------
(* Parser::parse_block_header *)

\* The call of parse_block from its caller up to the header loop: the new
\* block's frame is on the stack; parse_block_header starts with
\* expect_next(Identifier) (lines 78-91).
BlockEntry ==
    /\ result.status = "running"
    /\ pc = "block"
    /\ Ready
    /\ LET r == expect_next("Identifier")
       IN  IF r.ok
           THEN /\ pc' = "header"
                /\ hdr' = NoHeader
                /\ UNCHANGED result
           ELSE /\ result' = r.err
                /\ UNCHANGED <<pc, hdr>>
    /\ pos' = pos + 1
    /\ UNCHANGED <<tokens, eof, has_tok, stack, root, stmt, tips>>
    /\ UNCHANGED <<cli, lexer_vars>>

\* The bookkeeping of one header identifier: lines 110-122.
note_name(h, tok) ==
    IF Len(tok.lexeme) = 1 /\ Cardinality(h.short_names) = 1
    THEN [h EXCEPT !.error_loc = SomeLoc(get_loc(tok)),
                   !.short_names = @ \cup {tok.lexeme}]
    ELSE IF Len(tok.lexeme) = 1
    THEN [h EXCEPT !.short_names = @ \cup {tok.lexeme}]
    ELSE IF tok.lexeme \in h.unique_names /\ h.duplicate_names = {}
    THEN [h EXCEPT !.error_loc = SomeLoc(get_loc(tok)),
                   !.duplicate_names = @ \cup {tok.lexeme}]
    ELSE IF tok.lexeme \in h.unique_names
    THEN [h EXCEPT !.duplicate_names = @ \cup {tok.lexeme}]
    ELSE [h EXCEPT !.unique_names = @ \cup {tok.lexeme}]

\* header_finish without the duplicate-name branch
header_finish_short_only(h) ==
    IF Cardinality(h.short_names) > 1 /\ h.error_loc.some
    THEN Semantic("ExtraShortName", h.error_loc.loc, h.short_names)
    ELSE Ok

\* parse_block_header, after its loop: lines 145-157.
header_finish(h) ==
    IF Cardinality(h.short_names) > 1
    THEN IF h.error_loc.some
         THEN Semantic("ExtraShortName", h.error_loc.loc, h.short_names)
         ELSE Panic
    ELSE IF h.duplicate_names # {}
    THEN IF h.error_loc.some
         THEN Semantic("DuplicateName", h.error_loc.loc, h.duplicate_names)
         ELSE Panic
    ELSE Ok

Top == stack[Len(stack)]

SetTop(f) == [stack EXCEPT ![Len(stack)] = f]

\* One turn of the header loop (lines 93-143); the turn that meets `{` leaves
\* the loop and runs the checks after it.
HeaderStep ==
    /\ result.status = "running"
    /\ pc = "header"
    /\ Ready
    /\ HasTok(pos)
    /\ LET tok == tokens[pos]
       IN  IF hdr.exp_alt /\ tok.kind # "Identifier"
           THEN /\ result' = Syntax("UnexpectedToken", get_loc(tok))
                /\ UNCHANGED <<pos, pc, stack, hdr>>
           ELSE IF hdr.exp_alt
           THEN /\ hdr' = [note_name(hdr, tok) EXCEPT !.exp_alt = FALSE]
                /\ pos' = pos + 1
                /\ stack' = SetTop([Top EXCEPT !.block.identifiers = Append(@, tok.lexeme)])
                /\ UNCHANGED <<pc, result>>
           ELSE IF tok.kind = "OpenBrace"
           THEN /\ pos' = pos + 1
                /\ IF header_finish(hdr).status = "ok"
                   THEN pc' = "body" /\ UNCHANGED result
                   ELSE result' = header_finish(hdr) /\ UNCHANGED pc
                /\ UNCHANGED <<stack, hdr>>
           ELSE IF tok.kind = "Alt"
           THEN /\ hdr' = [hdr EXCEPT !.exp_alt = TRUE]
                /\ pos' = pos + 1
                /\ UNCHANGED <<pc, stack, result>>
           ELSE /\ result' = Syntax("UnexpectedToken", get_loc(tok))
                /\ UNCHANGED <<pos, pc, stack, hdr>>
    /\ UNCHANGED <<tokens, eof, has_tok, root, stmt, tips>>
    /\ UNCHANGED <<cli, lexer_vars>>

\* The header loop ends because the token slice does (line 93, peek() is
\* None), and the checks after the loop run.
HeaderEnd ==
    /\ result.status = "running"
    /\ pc = "header"
    /\ Ready
    /\ ~HasTok(pos)
    /\ IF header_finish(hdr).status = "ok"
       THEN pc' = "body" /\ UNCHANGED result
       ELSE result' = header_finish(hdr) /\ UNCHANGED pc
    /\ UNCHANGED <<tokens, eof, pos, has_tok, stack, root, hdr, stmt, tips>>
    /\ UNCHANGED <<cli, lexer_vars>>

-----------------------------------------------------------------------------
(* Parser::parse_block *)

Tip(msg, loc) == [msg |-> msg, loc |-> loc]

\* can_nest without the keyword test
can_nest_any(kw_tok) == TRUE

\* line 193: only a `command` block may hold nested blocks
can_nest(kw_tok) == kw_tok.lexeme = "command"

\* lines 222-226: p.blocks.push(block) / self.root.blocks.push(block)
push_block(owner, block) == [owner EXCEPT !.blocks = Append(@, block)]

\* lines 359-363: p.statements.push(..) / self.root.statements.push(..)
push_statement(owner, statement) == [owner EXCEPT !.statements = Append(@, statement)]

\* The frames once the innermost parse_block call has returned Ok into an
\* enclosing parse_block: the block is pushed onto its parent (line 223) and
\* the caller clears its empty_block (line 197).
ReturnToBlock ==
    LET outer == SubSeq(stack, 1, Len(stack) - 1)
    IN  [outer EXCEPT ![Len(outer)] =
            [@ EXCEPT !.block = push_block(@, Top.block), !.empty_block = FALSE]]

\* parse_block leaves its loop: lines 222-228, and the return to the caller.
BlockReturn ==
    IF Top.parent = "Some"
    THEN /\ stack' = ReturnToBlock
         /\ pc' = "body"
         /\ root' = root
    ELSE /\ stack' = SubSeq(stack, 1, Len(stack) - 1)
         /\ pc' = "parse"
         /\ root' = push_block(root, Top.block)

\* One turn of the body loop: lines 176-220.
BodyStep ==
    /\ result.status = "running"
    /\ pc = "body"
    /\ Ready
    /\ HasTok(pos)
    /\ LET tok == tokens[pos]
       IN  IF tok.kind = "CloseBrace"
           THEN /\ tips' = IF Top.empty_block
                           THEN Append(tips, Tip("Redundant argument: empty block", get_loc(tok)))
                           ELSE tips
                /\ pos' = pos + 1
                /\ BlockReturn
                /\ UNCHANGED <<stmt, result>>
           ELSE IF tok.kind = "Identifier"
           THEN /\ pc' = "statement"
                /\ stmt' = NewStatement(tok, FALSE, "Some")
                /\ UNCHANGED <<pos, stack, root, result, tips>>
           ELSE IF tok.kind = "Keyword"
           THEN IF ~can_nest(Top.kw_tok)
                THEN /\ result' = Semantic("CannotNest", get_loc(tok), {tok.lexeme})
                     /\ UNCHANGED <<pos, pc, stack, root, stmt, tips>>
                ELSE /\ pc' = "block"
                     /\ stack' = Append(stack, Frame(tok, "Some"))
                     /\ UNCHANGED <<pos, root, stmt, result, tips>>
           ELSE /\ result' = Syntax("UnexpectedToken", get_loc(tok))
                /\ UNCHANGED <<pos, pc, stack, root, stmt, tips>>
    /\ UNCHANGED <<tokens, eof, has_tok, hdr>>
    /\ UNCHANGED <<cli, lexer_vars>>

\* The body loop ends because the token slice does (line 176, peek() is None).
BodyEnd ==
    /\ result.status = "running"
    /\ pc = "body"
    /\ Ready
    /\ ~HasTok(pos)
    /\ BlockReturn
    /\ UNCHANGED <<tokens, eof, pos, has_tok, hdr, stmt, result, tips>>
    /\ UNCHANGED <<cli, lexer_vars>>

-----------------------------------------------------------------------------
(* Parser::parse_statement *)

\* lines 237-247: expect_next(Eq), then tokens.next()
StatementEntry ==
    /\ result.status = "running"
    /\ pc = "statement"
    /\ Ready
    /\ LET r == expect_next("Eq")
       IN  IF r.ok
           THEN /\ stmt' = [stmt EXCEPT !.prev_tok = r.tok]
                /\ pos' = pos + 2
                /\ pc' = "values"
                /\ UNCHANGED result
           ELSE /\ result' = r.err
                /\ pos' = pos + 1
                /\ UNCHANGED <<pc, stmt>>
    /\ UNCHANGED <<tokens, eof, has_tok, stack, root, hdr, tips>>
    /\ UNCHANGED <<cli, lexer_vars>>

\* kind_mismatch that never finds a mismatch
kind_mismatch_never(s, tok) == FALSE

\* lines 311-312: a value kind is fixed and the token is neither `;` nor of
\* that kind
kind_mismatch(s, tok) ==
    s.val_kind # "None" /\ tok.kind # "SemiColon" /\ tok.kind # s.val_kind

\* directive_statement with kind and ident_kind swapped
directive_statement_swapped(ident_tok, tok) ==
    Statement(ident_tok.lexeme, tok.lexeme, "Directive", "String")

\* lines 270-275: the statement of a directive
directive_statement(ident_tok, tok) ==
    Statement(ident_tok.lexeme, tok.lexeme, "String", "Directive")

\* value_step that takes a comma before the first value as a value
value_step_comma_value(s, tok) ==
    IF tok.kind = "Comma" /\ s.str_vals = <<>>
    THEN [act |-> "push", val_kind |-> s.val_kind, tip |-> FALSE]
    ELSE IF tok.kind = "Comma"
    THEN [act |-> "comma"]
    ELSE IF ~is_statement_kind(tok.kind) /\ s.prev_tok.kind = "Comma"
    THEN [act |-> "err", err |-> Syntax("UnexpectedToken", get_loc(tok))]
    ELSE IF tok.kind = "SemiColon" /\ s.str_vals # <<>>
    THEN IF s.val_kind = "None"
         THEN [act |-> "err", err |-> Panic]
         ELSE [act |-> "finish",
               statement |-> Statement(s.ident_tok.lexeme, Join(s.str_vals),
                                       s.val_kind, "Identifier")]
    ELSE IF kind_mismatch(s, tok)
    THEN [act |-> "err", err |-> Semantic("DiffOptionTypes", get_loc(tok), {})]
    ELSE IF ~is_statement_kind(tok.kind)
    THEN [act |-> "err", err |-> Syntax("UnexpectedToken", get_loc(tok))]
    ELSE [act |-> "push",
          val_kind |-> IF s.val_kind = "None" THEN tok.kind ELSE s.val_kind,
          tip |-> s.prev_tok.kind = "Comma" /\ s.str_vals = <<>>]

\* One turn of the value loop for a plain identifier: lines 279-356.
value_step(s, tok) ==
    IF tok.kind = "Comma"
    THEN [act |-> "comma"]
    ELSE IF ~is_statement_kind(tok.kind) /\ s.prev_tok.kind = "Comma"
    THEN [act |-> "err", err |-> Syntax("UnexpectedToken", get_loc(tok))]
    ELSE IF tok.kind = "SemiColon" /\ s.str_vals # <<>>
    THEN IF s.val_kind = "None"
         THEN [act |-> "err", err |-> Panic]
         ELSE [act |-> "finish",
               statement |-> Statement(s.ident_tok.lexeme, Join(s.str_vals),
                                       s.val_kind, "Identifier")]
    ELSE IF kind_mismatch(s, tok)
    THEN IF s.prev_tok.kind = "Comma"
         THEN [act |-> "err", err |-> Semantic("DiffOptionTypes", get_loc(tok), {})]
         ELSE [act |-> "err",
               err |-> Syntax("UnexpectedToken",
                              Loc(s.prev_tok.line,
                                  s.prev_tok.col + TokenLen(s.prev_tok) - 1))]
    ELSE IF ~is_statement_kind(tok.kind)
    THEN [act |-> "err", err |-> Syntax("UnexpectedToken", get_loc(tok))]
    ELSE [act |-> "push",
          val_kind |-> IF s.val_kind = "None" THEN tok.kind ELSE s.val_kind,
          tip |-> s.prev_tok.kind = "Comma" /\ s.str_vals = <<>>]

\* parse_statement leaves its loop with a statement: lines 359-365, and the
\* return to the caller (line 189 clears the caller's empty_block).
StatementReturn(statement) ==
    /\ IF stmt.parent = "Some"
       THEN /\ stack' = SetTop([Top EXCEPT !.block = push_statement(@, statement),
                                           !.empty_block = FALSE])
            /\ pc' = "body"
            /\ root' = root
       ELSE /\ root' = push_statement(root, statement)
            /\ pc' = "parse"
            /\ stack' = stack
    /\ stmt' = NoStatement

\* One turn of the value loop: lines 253-357.
StatementStep ==
    /\ result.status = "running"
    /\ pc = "values"
    /\ Ready
    /\ HasTok(pos)
    /\ LET tok == tokens[pos]
           is_str == tok.kind = "String"
       IN  IF stmt.is_dir /\ ~is_str
           THEN /\ result' = Syntax("UnexpectedToken", get_loc(tok))
                /\ UNCHANGED <<pos, pc, stack, root, stmt, tips>>
           ELSE IF stmt.is_dir /\ is_str
           THEN LET r == expect_next("SemiColon")
                IN  IF r.ok
                    THEN /\ pos' = pos + 2
                         /\ StatementReturn(directive_statement(stmt.ident_tok, tok))
                         /\ UNCHANGED <<result, tips>>
                    ELSE /\ result' = r.err
                         /\ pos' = pos + 1
                         /\ UNCHANGED <<pc, stack, root, stmt, tips>>
           ELSE LET o == value_step(stmt, tok)
                IN  IF o.act = "err"
                    THEN /\ result' = o.err
                         /\ UNCHANGED <<pos, pc, stack, root, stmt, tips>>
                    ELSE IF o.act = "comma"
                    THEN /\ stmt' = [stmt EXCEPT !.prev_tok = tok]
                         /\ pos' = pos + 1
                         /\ UNCHANGED <<pc, stack, root, result, tips>>
                    ELSE IF o.act = "finish"
                    THEN /\ pos' = pos + 1
                         /\ StatementReturn(o.statement)
                         /\ UNCHANGED <<result, tips>>
                    ELSE /\ tips' = IF o.tip
                                    THEN Append(tips,
                                                Tip("Redundant comma before value",
                                                    get_loc(stmt.prev_tok)))
                                    ELSE tips
                         /\ stmt' = [stmt EXCEPT !.prev_tok = tok,
                                                 !.str_vals = Append(@, tok.lexeme),
                                                 !.val_kind = o.val_kind]
                         /\ pos' = pos + 1
                         /\ UNCHANGED <<pc, stack, root, result>>
    /\ UNCHANGED <<tokens, eof, has_tok, hdr>>
    /\ UNCHANGED <<cli, lexer_vars>>

\* The value loop ends because the token slice does (line 253, peek() is
\* None): `statement` is still None and statement.unwrap() panics (360, 362).
StatementEnd ==
    /\ result.status = "running"
    /\ pc = "values"
    /\ Ready
    /\ ~HasTok(pos)
    /\ result' = Panic
    /\ UNCHANGED <<tokens, eof, pos, pc, has_tok, stack, root, hdr, stmt, tips>>
    /\ UNCHANGED <<cli, lexer_vars>>

-----------------------------------------------------------------------------

Next ==
    \/ Feed
    \/ ParseTop
    \/ BlockEntry
    \/ HeaderStep
    \/ HeaderEnd
    \/ BodyStep
    \/ BodyEnd
    \/ StatementEntry
    \/ StatementStep
    \/ StatementEnd

Spec == Init /\ [][Next]_vars

TypeOK ==
    /\ pos \in 1..(MaxTokens + 1)
    /\ pc \in {"parse", "block", "header", "body", "statement", "values"}
    /\ result.status \in {"running", "ok", "err", "panic"}
    /\ Len(tokens) <= MaxTokens

-----------------------------------------------------------------------------
(* main.rs: main *)

\* The command lines explored: args.len() (the program's name included), and
\* for args[1] whether the file exists and what Path::extension gives.
ArgsLens == {1, 2, 3}

Extensions == {"None", "argol", "txt"}

\* parse(fpath) has not been called
NotCalled == [Running EXCEPT !.status = "idle"]

\* std::process::exit(code)
Exit(code) == [cli EXCEPT !.exited = TRUE, !.code = code]

\* line 27: fpath.extension().is_none_or(|e| e == ".argol")
bad_extension(extension) == extension = "None" \/ extension = ".argol"

\* what the process ends with when main returns or parse panics: main
\* returns () after line 38-40 (status 0); a panic ends the process with 101
main_return(res) == IF res.status = "panic" THEN 101 ELSE 0

MainInit ==
    /\ ParserNew
    /\ result = NotCalled
    /\ \E n \in ArgsLens, e \in BOOLEAN, x \in Extensions : cli = Cli(n, e, x)
    /\ LexerNew

\* lines 14-18
MainArgs ==
    /\ cli.pc = "args" /\ ~cli.exited
    /\ cli' = IF cli.args_len # 2 THEN Exit(1) ELSE [cli EXCEPT !.pc = "exists"]
    /\ UNCHANGED <<tokens, eof, pos, pc, has_tok, stack, root, hdr, stmt, result, tips>>
    /\ UNCHANGED lexer_vars

\* lines 20-25
MainExists ==
    /\ cli.pc = "exists"
    /\ cli' = [cli EXCEPT !.pc = "extension", !.err = IF ~cli.exists THEN TRUE ELSE @]
    /\ UNCHANGED <<tokens, eof, pos, pc, has_tok, stack, root, hdr, stmt, result, tips>>
    /\ UNCHANGED lexer_vars

\* lines 27-30
MainExtension ==
    /\ cli.pc = "extension"
    /\ cli' = [cli EXCEPT !.pc = "err",
                          !.err = IF bad_extension(cli.extension) THEN TRUE ELSE @]
    /\ UNCHANGED <<tokens, eof, pos, pc, has_tok, stack, root, hdr, stmt, result, tips>>
    /\ UNCHANGED lexer_vars

\* lines 32-38: exit(2), or the banner and the call of parse
MainCall ==
    /\ cli.pc = "err" /\ ~cli.exited
    /\ IF cli.err
       THEN cli' = Exit(2) /\ UNCHANGED result
       ELSE cli' = [cli EXCEPT !.pc = "parse"] /\ result' = Running
    /\ UNCHANGED <<tokens, eof, pos, pc, has_tok, stack, root, hdr, stmt, tips>>
    /\ UNCHANGED lexer_vars

\* lines 38-41: parse has returned (an Err is printed), and main returns; or
\* parse has panicked
MainReturn ==
    /\ cli.pc = "parse" /\ ~cli.exited
    /\ result.status \in {"ok", "err", "panic"}
    /\ cli' = Exit(main_return(result))
    /\ UNCHANGED <<tokens, eof, pos, pc, has_tok, stack, root, hdr, stmt, result, tips>>
    /\ UNCHANGED lexer_vars

MainNext ==
    \/ MainArgs
    \/ MainExists
    \/ MainExtension
    \/ MainCall
    \/ MainReturn
    \/ Feed
    \/ ParseTop
    \/ BlockEntry
    \/ HeaderStep
    \/ HeaderEnd
    \/ BodyStep
    \/ BodyEnd
    \/ StatementEntry
    \/ StatementStep
    \/ StatementEnd

\* main run on one command line, parse(fpath) run on one token slice
MainSpec == MainInit /\ [][MainNext]_vars

-----------------------------------------------------------------------------
(* tokenizer.rs: the text, characters, results *)

\* Longest text explored.
MaxChars == 4

\* The characters the texts are drawn from.  A character is a string of
\* length one; "\n" is the newline, "\"" the double quote, "\\" the backslash.
Alphabet ==
    { " ", "\n", "#", "=", "*", "\"", "\\", "+", "-", ".", "_", "0", "1", "e", "x" }

\* char::is_ascii_digit
is_ascii_digit(c) == c \in {"0", "1", "2", "3", "4", "5", "6", "7", "8", "9"}

\* char::is_ascii_hexdigit
is_ascii_hexdigit(c) ==
    is_ascii_digit(c)
      \/ c \in {"a", "b", "c", "d", "e", "f", "A", "B", "C", "D", "E", "F"}

\* 'a'..='z' | 'A'..='Z'
is_ascii_alphabetic(c) ==
    c \in { "a", "b", "c", "d", "e", "f", "g", "h", "i", "j", "k", "l", "m",
            "n", "o", "p", "q", "r", "s", "t", "u", "v", "w", "x", "y", "z",
            "A", "B", "C", "D", "E", "F", "G", "H", "I", "J", "K", "L", "M",
            "N", "O", "P", "Q", "R", "S", "T", "U", "V", "W", "X", "Y", "Z" }

\* char::is_ascii_alphanumeric
is_ascii_alphanumeric(c) == is_ascii_alphabetic(c) \/ is_ascii_digit(c)

\* char::is_whitespace, on the characters of a text file
is_whitespace(c) == c \in {" ", "\t", "\n", "\r"}

\* tokenizer.rs: is_special_symbol
is_special_symbol(symbol) == symbol \in {"+", "-", "=", "{", "}", "/", "*"}

\* chars.peek() with the iterator at index i: "None" past the end of the text
CharAt(i) == IF i <= Len(content) THEN content[i] ELSE "None"

LexPeek == CharAt(lex.chars)

\* tokenize returns Ok(tokens)
LexOk == [status |-> "ok", msg |-> "", loc |-> Loc(0, 0)]

\* util.rs: print_syntax_err prints the message and ends the process with
\* exit(1)
print_syntax_err(msg, line, col) ==
    [status |-> "exit", msg |-> msg, loc |-> Loc(line, col)]

\* The messages of the lexer's errors, under the names of SyntaxError
InvalidChar == "invalid char"

UnterminatedStr == "unterminated string literal"

InvalidStrEsc == "invalid escape sequence"

InvalidIdent == "identifer cannot end with '-'"

InvalidRange ==
    "invalid format for range expression (format: <INT_MIN>..[=]<INT_MAX | '*'>)"

InvalidNumberSign == "sign(s) with no associated number"

NoFloatExp == "missing float exponent"

InvalidFloatExpChars == "float exponent contains illegal char(s)"

\* chars.next(); col += 1
Advance(l) == [l EXCEPT !.chars = @ + 1, !.col = @ + 1]

\* tokens.push(Token { kind, lexeme, line, col }), and the next turn of the
\* main loop.  `spans` keeps, for each token, the places of its first and last
\* character in the text.
PushToken(l, kind, lexeme, line, col) ==
    [l EXCEPT !.tokens = Append(@, Token(kind, lexeme, line, col)),
              !.spans = Append(@, [first |-> l.first, last |-> l.chars - 1]),
              !.pc = "scan"]

\* String::insert(idx, ch)
Insert(str, idx, ch) ==
    SubSeq(str, 1, idx) \o <<ch>> \o SubSeq(str, idx + 1, Len(str))

-----------------------------------------------------------------------------
(* tokenizer.rs: the text is read one character at a time *)

\* How many characters past the next one the lexer's next step reads: the
\* lookahead of line 83-85.
LexNeed == IF lex.pc = "scan" /\ LexPeek = "*" THEN 1 ELSE 0

LexReady == content_end \/ Len(content) >= lex.chars + LexNeed

\* The text goes on with one more character, or ends here.
LexFeed ==
    /\ lexed.status = "running"
    /\ ~LexReady
    /\ \/ /\ Len(content) < MaxChars
          /\ \E c \in Alphabet : content' = Append(content, c)
          /\ content_end' = FALSE
       \/ /\ content_end' = TRUE
          /\ content' = content
    /\ UNCHANGED <<lex, num, lexed>>
    /\ UNCHANGED <<tokens, eof, pos, pc, has_tok, stack, root, hdr, stmt, result, tips, cli>>

-----------------------------------------------------------------------------
(* tokenizer.rs: tokenize *)

\* lines 66-72
symbol_kind(c) ==
    CASE c = "=" -> "Eq"
      [] c = "{" -> "OpenBrace"
      [] c = "}" -> "CloseBrace"
      [] c = "/" -> "Alt"

\* lines 188-203: the kind of a word
word_kind(lexeme) ==
    IF lexeme \in { <<"t", "r", "u", "e">>, <<"f", "a", "l", "s", "e">> }
    THEN "Boolean"
    ELSE IF lexeme \in { <<"c", "o", "m", "m", "a", "n", "d">>,
                         <<"f", "l", "a", "g">>, <<"p", "o", "s">>,
                         <<"n", "a", "m", "e", "d">> }
    THEN "Keyword"
    ELSE "Identifer"

\* lines 132-148: the character an escape stands for ("BS" is U+0008, "ESC"
\* is U+001B), or "None" for an invalid escape
escaped_char(c) ==
    CASE c = "\"" -> "\""
      [] c = "\\" -> "\\"
      [] c = "t" -> "\t"
      [] c = "b" -> "BS"
      [] c = "e" -> "ESC"
      [] OTHER -> "None"

\* The call of parse_number: lines 87, 102 and 229-244
CallParseNumber(l) ==
    /\ num' = NewNumber(l.line, l.col)
    /\ lex' = [l EXCEPT !.pc = "signs"]
    /\ UNCHANGED lexed

\* One turn of the main loop up to the token's first character: lines 44-217.
LexScan ==
    /\ lexed.status = "running"
    /\ lex.pc = "scan"
    /\ LexReady
    /\ LexPeek # "None"
    /\ LET c == LexPeek
           l == [lex EXCEPT !.first = lex.chars]
       IN  IF c \in {" ", "\t"}
           THEN lex' = Advance(l) /\ UNCHANGED <<num, lexed>>
           ELSE IF c = "#"
           THEN lex' = [l EXCEPT !.pc = "comment"] /\ UNCHANGED <<num, lexed>>
           ELSE IF c = "\n"
           THEN /\ lex' = [l EXCEPT !.line = @ + 1, !.col = 1, !.chars = @ + 1]
                /\ UNCHANGED <<num, lexed>>
           ELSE IF c \in {"=", "{", "}", "/"}
           THEN /\ lex' = PushToken(Advance(l), symbol_kind(c), <<c>>, l.line, l.col + 1)
                /\ UNCHANGED <<num, lexed>>
           ELSE IF c = "*"
           THEN LET next_c == CharAt(lex.chars + 1)
                IN  IF next_c = "None"
                    THEN UNCHANGED <<lex, num, lexed>>
                    ELSE IF next_c = "." \/ is_ascii_digit(next_c)
                    THEN CallParseNumber(l)
                    ELSE /\ lex' = PushToken(Advance(l), "Wildcard", <<c>>, l.line, l.col + 1)
                         /\ UNCHANGED <<num, lexed>>
           ELSE IF is_ascii_digit(c) \/ c \in {".", "-", "+"}
           THEN CallParseNumber(l)
           ELSE IF c = "\""
           THEN /\ lex' = [Advance(l) EXCEPT !.lexeme = <<>>, !.in_escape = FALSE,
                                             !.pc = "string"]
                /\ UNCHANGED <<num, lexed>>
           ELSE IF is_ascii_alphabetic(c) \/ c = "_"
           THEN /\ lex' = [l EXCEPT !.lexeme = <<>>, !.pc = "ident"]
                /\ UNCHANGED <<num, lexed>>
           ELSE /\ lexed' = print_syntax_err(InvalidChar, lex.line, lex.col)
                /\ UNCHANGED <<lex, num>>
    /\ UNCHANGED <<content, content_end>>
    /\ UNCHANGED <<parser_vars, cli>>

\* The main loop ends (line 44, peek() is None): Ok(tokens), line 220.
LexEnd ==
    /\ lexed.status = "running"
    /\ lex.pc = "scan"
    /\ LexReady
    /\ LexPeek = "None"
    /\ lexed' = LexOk
    /\ UNCHANGED <<content, content_end, lex, num>>
    /\ UNCHANGED <<parser_vars, cli>>

\* One turn of the comment loop: lines 51-58.
LexComment ==
    /\ lexed.status = "running"
    /\ lex.pc = "comment"
    /\ LexReady
    /\ LET next_c == LexPeek
       IN  IF next_c = "None"
           THEN lex' = [lex EXCEPT !.pc = "scan"]
           ELSE IF next_c = "\n"
           THEN lex' = [lex EXCEPT !.line = @ + 1, !.col = 1, !.pc = "scan"]
           ELSE lex' = [lex EXCEPT !.chars = @ + 1]
    /\ UNCHANGED <<content, content_end, num, lexed>>
    /\ UNCHANGED <<parser_vars, cli>>

\* lines 160-167: the String token is pushed, then chars.next()
push_string(l) ==
    [PushToken(l, "String", l.lexeme, l.line, l.col) EXCEPT !.chars = @ + 1]

\* One turn of the string loop (lines 112-158); the turn that leaves the loop
\* pushes the token (lines 160-167).
LexString ==
    /\ lexed.status = "running"
    /\ lex.pc = "string"
    /\ LexReady
    /\ LET next_c == LexPeek
       IN  IF next_c = "None"
           THEN lex' = push_string(lex) /\ UNCHANGED lexed
           ELSE IF next_c = "\""
           THEN lex' = push_string(Advance(lex)) /\ UNCHANGED lexed
           ELSE IF next_c = "\n"
           THEN /\ lexed' = print_syntax_err(UnterminatedStr, lex.line, lex.col + 1)
                /\ UNCHANGED lex
           ELSE IF next_c = "\\"
           THEN lex' = [Advance(lex) EXCEPT !.in_escape = TRUE] /\ UNCHANGED lexed
           ELSE IF lex.in_escape
           THEN IF escaped_char(next_c) = "None"
                THEN /\ lexed' = print_syntax_err(InvalidStrEsc, lex.line, lex.col)
                     /\ UNCHANGED lex
                ELSE /\ lex' = [Advance(lex) EXCEPT
                                   !.lexeme = Append(@, escaped_char(next_c))]
                     /\ UNCHANGED lexed
           ELSE /\ lex' = [Advance(lex) EXCEPT !.lexeme = Append(@, next_c)]
                /\ UNCHANGED lexed
    /\ UNCHANGED <<content, content_end, num>>
    /\ UNCHANGED <<parser_vars, cli>>

\* One turn of the word loop (lines 172-180); the turn that leaves the loop
\* pushes the token (lines 182-210).
LexIdent ==
    /\ lexed.status = "running"
    /\ lex.pc = "ident"
    /\ LexReady
    /\ LET next_c == LexPeek
       IN  IF is_ascii_alphanumeric(next_c) \/ next_c = "_" \/ next_c = "-"
           THEN /\ lex' = [Advance(lex) EXCEPT !.lexeme = Append(@, next_c)]
                /\ UNCHANGED lexed
           ELSE IF lex.lexeme # <<>> /\ lex.lexeme[Len(lex.lexeme)] = "-"
           THEN /\ lexed' = print_syntax_err(InvalidIdent, lex.line, lex.col)
                /\ UNCHANGED lex
           ELSE /\ lex' = PushToken(lex, word_kind(lex.lexeme), lex.lexeme,
                                    lex.line, lex.col)
                /\ UNCHANGED lexed
    /\ UNCHANGED <<content, content_end, num>>
    /\ UNCHANGED <<parser_vars, cli>>

-----------------------------------------------------------------------------
(* tokenizer.rs: parse_number *)

\* lines 246-255: the loop over the leading signs
NumSigns ==
    /\ lexed.status = "running"
    /\ lex.pc = "signs"
    /\ LexReady
    /\ LET sign == LexPeek
       IN  IF sign = "+" \/ sign = "-"
           THEN /\ num' = [num EXCEPT !.has_sign = TRUE, !.lexeme = Append(@, sign)]
                /\ lex' = Advance(lex)
           ELSE /\ lex' = [lex EXCEPT !.pc = "zero"]
                /\ UNCHANGED num
    /\ UNCHANGED <<content, content_end, lexed>>
    /\ UNCHANGED <<parser_vars, cli>>

\* lines 257-260: a leading 0 is consumed
NumZero ==
    /\ lexed.status = "running"
    /\ lex.pc = "zero"
    /\ LexReady
    /\ IF LexPeek = "0"
       THEN /\ num' = [num EXCEPT !.lexeme = Append(@, "0")]
            /\ lex' = [Advance(lex) EXCEPT !.pc = "prefix"]
       ELSE /\ lex' = [lex EXCEPT !.pc = "before"]
            /\ UNCHANGED num
    /\ UNCHANGED <<content, content_end, lexed>>
    /\ UNCHANGED <<parser_vars, cli>>

\* lines 262-287: what follows the leading 0; for x, o, b the call of
\* parse_prefixed_int up to its loop (lines 513-517)
NumPrefix ==
    /\ lexed.status = "running"
    /\ lex.pc = "prefix"
    /\ LexReady
    /\ LET prefix == LexPeek
       IN  IF prefix \in {"x", "o", "b"}
           THEN /\ num' = [num EXCEPT !.lexeme = <<"0", prefix>>, !.prefix = prefix,
                                      !.has_digit = FALSE]
                /\ lex' = [Advance(lex) EXCEPT !.pc = "prefixed"]
           ELSE IF prefix = "."
           THEN /\ num' = [num EXCEPT !.is_float = TRUE, !.has_digits_before_dot = TRUE]
                /\ lex' = [lex EXCEPT !.pc = "before"]
           ELSE /\ lex' = [lex EXCEPT !.pc = "before"]
                /\ UNCHANGED num
    /\ UNCHANGED <<content, content_end, lexed>>
    /\ UNCHANGED <<parser_vars, cli>>

\* lines 265-270: the digits a prefix allows
is_valid(prefix, c) ==
    CASE prefix = "x" -> is_ascii_hexdigit(c)
      [] prefix = "o" -> c \in {"0", "1", "2", "3", "4", "5", "6", "7"}
      [] prefix = "b" -> c \in {"0", "1"}

\* parse_prefixed_int: one turn of its loop (lines 518-529), or its end
\* (lines 531-542)
NumPrefixed ==
    /\ lexed.status = "running"
    /\ lex.pc = "prefixed"
    /\ LexReady
    /\ LET ch == LexPeek
       IN  IF is_valid(num.prefix, ch) \/ ch = "_"
           THEN /\ num' = [num EXCEPT !.lexeme = Append(@, ch),
                                      !.has_digit = @ \/ is_valid(num.prefix, ch)]
                /\ lex' = Advance(lex)
                /\ UNCHANGED lexed
           ELSE IF ~num.has_digit
           THEN /\ lexed' = print_syntax_err("expected digits after prefix",
                                             num.start_line, lex.col)
                /\ UNCHANGED <<lex, num>>
           ELSE /\ lex' = PushToken(lex, "Int", num.lexeme, num.start_line, num.start_col)
                /\ UNCHANGED <<num, lexed>>
    /\ UNCHANGED <<content, content_end>>
    /\ UNCHANGED <<parser_vars, cli>>

\* range_token that leaves the lexeme as it was read
range_token_as_read(n) ==
    [kind |-> IF n.range_has_eq THEN "InclusiveRange" ELSE "ExclusiveRange",
     lexeme |-> n.lexeme]

\* lines 385-400: the range token
range_token(n) ==
    [kind |-> IF n.range_has_eq THEN "InclusiveRange" ELSE "ExclusiveRange",
     lexeme |-> IF ~n.has_digits_after_dot THEN Append(n.lexeme, "*") ELSE n.lexeme]

\* lines 370-437 and 440-441: parse_number after its digit loops, with c the
\* next character
number_tail(n, c) ==
    IF n.invalid_range \/ (n.range_has_sign /\ ~n.has_digits_after_dot)
    THEN [act |-> "err", msg |-> InvalidRange]
    ELSE IF n.range_has_dot
    THEN [act |-> "token", kind |-> range_token(n).kind, lexeme |-> range_token(n).lexeme]
    ELSE IF n.begins_with_star
    THEN [act |-> "err",
          msg |-> IF n.is_float THEN "float cannot contain wildcard"
                  ELSE "int cannot contain wildcard"]
    ELSE IF ~n.has_digits_before_dot /\ n.has_sign
    THEN [act |-> "err", msg |-> InvalidNumberSign]
    ELSE IF n.is_float /\ (~n.has_digits_before_dot \/ ~n.has_digits_after_dot)
    THEN [act |-> "err",
          msg |-> "float must have digits on both sides of decimal point"]
    ELSE IF c \in {"e", "E"}
    THEN [act |-> "exp"]
    ELSE [act |-> "token", kind |-> IF n.is_float THEN "Float" ELSE "Int",
          lexeme |-> n.lexeme]

\* parse_number leaves its digit loops: lines 370-453 up to the exponent's
\* sign, or the return of lines 489-498 and the push of the token (88, 103).
NumberTail ==
    LET o == number_tail(num, LexPeek)
    IN  IF o.act = "err"
        THEN /\ lexed' = print_syntax_err(o.msg, lex.line, lex.col)
             /\ UNCHANGED <<lex, num>>
        ELSE IF o.act = "token"
        THEN /\ lex' = PushToken(lex, o.kind, o.lexeme, num.start_line, num.start_col)
             /\ UNCHANGED <<num, lexed>>
        ELSE /\ num' = [num EXCEPT !.is_float = TRUE, !.lexeme = Append(@, LexPeek)]
             /\ lex' = [Advance(lex) EXCEPT !.pc = "exp_sign"]
             /\ UNCHANGED lexed

\* One turn of the loop before the decimal point (lines 291-305); the turn
\* that leaves it meets the decimal point (lines 308-313) or runs the rest.
NumBefore ==
    /\ lexed.status = "running"
    /\ lex.pc = "before"
    /\ LexReady
    /\ LET d == LexPeek
       IN  IF is_ascii_digit(d) \/ d = "_"
           THEN /\ num' = [num EXCEPT !.has_digits_before_dot = TRUE,
                                      !.lexeme = Append(@, d)]
                /\ lex' = Advance(lex)
                /\ UNCHANGED lexed
           ELSE IF d = "*"
           THEN /\ num' = [num EXCEPT !.begins_with_star = TRUE,
                                      !.lexeme = Append(@, d)]
                /\ lex' = Advance(lex)
                /\ UNCHANGED lexed
           ELSE IF d = "."
           THEN /\ num' = [num EXCEPT !.is_float = TRUE,
                                      !.insert_pos = Len(num.lexeme),
                                      !.lexeme = Append(@, ".")]
                /\ lex' = [Advance(lex) EXCEPT !.pc = "after"]
                /\ UNCHANGED lexed
           ELSE NumberTail
    /\ UNCHANGED <<content, content_end>>
    /\ UNCHANGED <<parser_vars, cli>>

\* lines 317-363: one character after the decimal point
after_dot(n, d) ==
    IF is_ascii_digit(d) \/ d = "_"
    THEN [n EXCEPT !.invalid_range = @ \/ n.range_has_star,
                   !.has_digits_after_dot = TRUE,
                   !.lexeme = Append(@, d)]
    ELSE IF d = "*"
    THEN [n EXCEPT !.invalid_range = @ \/ n.range_has_star \/ n.range_has_sign,
                   !.range_has_star = TRUE,
                   !.has_digits_after_dot = TRUE,
                   !.lexeme = Append(@, "*")]
    ELSE IF d = "="
    THEN [n EXCEPT !.invalid_range = @ \/ ~n.range_has_dot \/ n.range_has_eq,
                   !.range_has_eq = TRUE,
                   !.lexeme = Append(@, "=")]
    ELSE IF d = "."
    THEN [n EXCEPT !.invalid_range = @ \/ n.range_has_dot \/ n.begins_with_star,
                   !.range_has_dot = TRUE,
                   !.lexeme =
                       Append(IF ~(n.range_has_dot \/ n.begins_with_star)
                                 /\ ~n.has_digits_before_dot
                              THEN Insert(@, n.insert_pos, "0")
                              ELSE @,
                              ".")]
    ELSE [n EXCEPT !.invalid_range = @ \/ n.range_has_sign,
                   !.range_has_sign = TRUE,
                   !.lexeme = Append(@, d)]

\* line 355: range_has_dot && d == '+' || d == '-'
is_range_sign(n, d) == (n.range_has_dot /\ d = "+") \/ d = "-"

\* One turn of the loop after the decimal point (lines 316-367); the turn
\* that leaves it runs the rest.
NumAfter ==
    /\ lexed.status = "running"
    /\ lex.pc = "after"
    /\ LexReady
    /\ LET d == LexPeek
       IN  IF is_ascii_digit(d) \/ d \in {"_", "*", "=", "."} \/ is_range_sign(num, d)
           THEN /\ num' = after_dot(num, d)
                /\ lex' = Advance(lex)
                /\ UNCHANGED lexed
           ELSE NumberTail
    /\ UNCHANGED <<content, content_end>>
    /\ UNCHANGED <<parser_vars, cli>>

\* lines 447-453: the sign of the exponent
NumExpSign ==
    /\ lexed.status = "running"
    /\ lex.pc = "exp_sign"
    /\ LexReady
    /\ LET sign == LexPeek
       IN  IF sign = "+" \/ sign = "-"
           THEN /\ num' = [num EXCEPT !.lexeme = Append(@, sign)]
                /\ lex' = [Advance(lex) EXCEPT !.pc = "exp"]
           ELSE /\ lex' = [lex EXCEPT !.pc = "exp"]
                /\ UNCHANGED num
    /\ UNCHANGED <<content, content_end, lexed>>
    /\ UNCHANGED <<parser_vars, cli>>

\* lines 462-485: the exponent loop has stopped at c ("None" at the end of
\* the text)
exponent_end(n, c) ==
    IF ~n.has_exp
    THEN [act |-> "err", msg |-> NoFloatExp]
    ELSE IF c # "None" /\ ~is_special_symbol(c) /\ ~is_whitespace(c)
    THEN [act |-> "err", msg |-> InvalidFloatExpChars]
    ELSE [act |-> "token"]

\* One turn of the exponent loop (lines 456-468); the turn that leaves it
\* runs lines 470-498 and pushes the token.
NumExp ==
    /\ lexed.status = "running"
    /\ lex.pc = "exp"
    /\ LexReady
    /\ LET n == LexPeek
       IN  IF is_ascii_digit(n) \/ n = "_"
           THEN /\ num' = [num EXCEPT !.has_exp = TRUE, !.lexeme = Append(@, n)]
                /\ lex' = Advance(lex)
                /\ UNCHANGED lexed
           ELSE IF exponent_end(num, n).act = "err"
           THEN /\ lexed' = print_syntax_err(exponent_end(num, n).msg, lex.line, lex.col)
                /\ UNCHANGED <<lex, num>>
           ELSE /\ lex' = PushToken(lex, IF num.is_float THEN "Float" ELSE "Int",
                                    num.lexeme, num.start_line, num.start_col)
                /\ UNCHANGED <<num, lexed>>
    /\ UNCHANGED <<content, content_end>>
    /\ UNCHANGED <<parser_vars, cli>>

-----------------------------------------------------------------------------

LexNext ==
    \/ LexFeed
    \/ LexScan
    \/ LexEnd
    \/ LexComment
    \/ LexString
    \/ LexIdent
    \/ NumSigns
    \/ NumZero
    \/ NumPrefix
    \/ NumPrefixed
    \/ NumBefore
    \/ NumAfter
    \/ NumExpSign
    \/ NumExp

\* tokenize run on one text
LexSpec == Init /\ [][LexNext]_vars

\* tokenize runs on one thread, with nothing to wait for: while it has not
\* returned and a step changes its state, a step is taken.
LexFairSpec == LexSpec /\ WF_vars(LexNext)

-----------------------------------------------------------------------------
(* Properties *)

Done == result.status # "running"

Peek == tokens[pos]

\* All the blocks of a forest of blocks, at any depth.
RECURSIVE AllBlocks(_)
AllBlocks(bs) ==
    IF bs = <<>> THEN {}
    ELSE {Head(bs)} \cup AllBlocks(Head(bs).blocks) \cup AllBlocks(Tail(bs))

\* The blocks attached so far below the root.
TreeBlocks == AllBlocks(root.blocks)

\* The (kind, lexeme) pairs of the token slice.
Shape == [i \in 1..Len(tokens) |-> <<tokens[i].kind, tokens[i].lexeme>>]

\* C1: parsing an empty token stream fails with the syntax error NoToken, and
\* nothing is added to the root.
C1_EmptyStreamIsNoToken ==
    (Done /\ tokens = <<>>) =>
        /\ result.status = "err"
        /\ result.class = "Syntax"
        /\ result.kind = "NoToken"
        /\ root = Block("root")

\* The empty stream has been parsed to its end.
C1_Witness ==
    /\ tokens = <<>>
    /\ eof
    /\ result.kind = "NoToken"

\* C2 (rejection): a Keyword met in the body of a block whose keyword is not
\* `command` makes parse return CannotNest, located at that Keyword.
C2_Reject ==
    (/\ result.status = "running"
     /\ pc = "body"
     /\ HasTok(pos)
     /\ Peek.kind = "Keyword"
     /\ Top.block.keyword # "command")
        => result' = Semantic("CannotNest", get_loc(Peek), {Peek.lexeme})

\* C2 (acceptance): under `command` the nested block is entered, and when its
\* parse returns it is the last child of the enclosing command block.
C2_Accept ==
    /\ (/\ result.status = "running"
        /\ pc = "body"
        /\ HasTok(pos)
        /\ Peek.kind = "Keyword"
        /\ Top.block.keyword = "command")
           => /\ result'.status = "running"
              /\ Len(stack') = Len(stack) + 1
              /\ stack'[Len(stack')].block = Block(Peek.lexeme)
    /\ (Len(stack) > 1 /\ Len(stack') < Len(stack))
           => /\ stack'[Len(stack')].block.keyword = "command"
              /\ stack'[Len(stack')].block.blocks =
                    Append(stack[Len(stack) - 1].block.blocks, Top.block)

\* C2 (the tree): every attached block that has nested blocks is a `command`.
C2_Tree ==
    \A b \in TreeBlocks : b.blocks # <<>> => b.keyword = "command"

\* C2: a nested block is CannotNest under a non-command block and is accepted
\* and attached under a command block, so in every tree of a successful parse
\* each non-root block with nested blocks has keyword `command`.
C2_NestOnlyUnderCommand ==
    /\ [](result.status = "ok" => C2_Tree)
    /\ [][C2_Reject /\ C2_Accept]_vars

\* A successful parse whose tree holds a command block with a nested block.
C2_Witness ==
    /\ result.status = "ok"
    /\ \E b \in TreeBlocks : b.keyword = "command" /\ b.blocks # <<>>
    /\ tokens[Len(tokens)].kind = "CloseBrace"

\* The index of the last token of kind `kind` before index p (0 if none).
LastBefore(kind, p) ==
    LET at == {i \in 1..(p - 1) : HasTok(i) /\ tokens[i].kind = kind}
    IN  IF at = {} THEN 0 ELSE CHOOSE i \in at : \A j \in at : j <= i

\* The `{` that closes a block header has just been consumed: either the
\* header was accepted (pc = "body") or its naming checks failed.
HeaderClosed ==
    /\ pos > 1
    /\ HasTok(pos - 1)
    /\ tokens[pos - 1].kind = "OpenBrace"
    /\ pc \in {"header", "body"}

NoRepeat(ids) == \A i, j \in 1..Len(ids) : i # j => ids[i] # ids[j]

ShortNames(ids) == {ids[i] : i \in {j \in 1..Len(ids) : Len(ids[j]) = 1}}

\* C3: a block header that lists the same identifier twice is rejected with
\* DuplicateName (the header has no second short name that would be reported
\* instead), and no successfully parsed block has two equal identifiers.
C3_DuplicateRejected ==
    /\ (HeaderClosed /\ ~NoRepeat(Top.block.identifiers)
            /\ Cardinality(ShortNames(Top.block.identifiers)) <= 1)
           => /\ result.status = "err"
              /\ result.class = "Semantic"
              /\ result.kind = "DuplicateName"
    /\ result.status = "ok" => \A b \in TreeBlocks : NoRepeat(b.identifiers)

\* The header identifiers of length 1 that differ from an earlier identifier of
\* length 1 of the same header, by token index; the header is the one whose `{`
\* was consumed last.
LaterShorts ==
    LET kw == LastBefore("Keyword", pos)
        short == {i \in (kw + 1)..(pos - 2) :
                    tokens[i].kind = "Identifier" /\ Len(tokens[i].lexeme) = 1}
    IN  {i \in short : \E j \in short : j < i /\ tokens[j].lexeme # tokens[i].lexeme}

\* C4: a well-formed header that contains a second short name fails with
\* ExtraShortName, located at the second short name, whatever other
\* identifiers precede or follow it.
C4_ExtraShortNameAtSecond ==
    (HeaderClosed /\ LaterShorts # {}) =>
        /\ result.status = "err"
        /\ result.class = "Semantic"
        /\ result.kind = "ExtraShortName"
        /\ result.loc = get_loc(tokens[CHOOSE i \in LaterShorts : \A j \in LaterShorts : i <= j])

RECURSIVE CountBlocks(_)
CountBlocks(bs) ==
    IF bs = <<>> THEN 0
    ELSE 1 + CountBlocks(Head(bs).blocks) + CountBlocks(Tail(bs))

RECURSIVE CountInFrames(_)
CountInFrames(frames) ==
    IF frames = <<>> THEN 0
    ELSE CountBlocks(Head(frames).block.blocks) + CountInFrames(Tail(frames))

\* The blocks appended so far to the root or to a parent block.
Attached == CountBlocks(root.blocks) + CountInFrames(stack)

Consumed(kind) == Cardinality({i \in 1..(pos - 1) : HasTok(i) /\ tokens[i].kind = kind})

\* C9: a block is appended to its parent (or the root) only when its closing
\* brace has been consumed: there are never more appended blocks than consumed
\* CloseBrace tokens, so a stream that ends inside a header or a body leaves
\* no such block in the tree.
C9_AttachedOnlyWhenClosed == Attached <= Consumed("CloseBrace")

\* C10: in a plain-identifier statement a literal that directly follows a
\* literal is rejected with UnexpectedToken, whatever the two kinds: no two
\* adjacent literals are ever both consumed.
C10_CommaSeparated ==
    /\ \A i \in 2..(pos - 1) :
          HasTok(i) =>
            ~(is_statement_kind(tokens[i - 1].kind) /\ is_statement_kind(tokens[i].kind))
    /\ (/\ result.status # "running"
        /\ pc = "values"
        /\ ~stmt.is_dir
        /\ HasTok(pos)
        /\ is_statement_kind(tokens[pos].kind)
        /\ is_statement_kind(tokens[pos - 1].kind))
           => /\ result.status = "err"
              /\ result.kind = "UnexpectedToken"

\* The statements list the active parse_statement call pushes onto, after
\* the step.
OwnerStatementsAfter ==
    IF stmt.parent = "Some" THEN stack'[Len(stack')].block.statements
    ELSE root'.statements

\* The step creates a statement and returns from parse_statement.
StatementCreated ==
    /\ result.status = "running"
    /\ pc = "values"
    /\ pc' # "values"
    /\ result'.status = "running"

\* The literals consumed so far by the statement whose `=` was consumed last.
ValuesBefore(p) ==
    {i \in (LastBefore("Eq", p) + 1)..(p - 1) : is_statement_kind(tokens[i].kind)}

\* C5 (rejection): in a plain statement, a literal after a comma whose kind
\* differs from the kind of the first literal makes parse return
\* DiffOptionTypes, located at that literal.
C5_Mismatch ==
    (/\ result.status = "running"
     /\ pc = "values"
     /\ ~stmt.is_dir
     /\ HasTok(pos)
     /\ is_statement_kind(Peek.kind)
     /\ tokens[pos - 1].kind = "Comma"
     /\ ValuesBefore(pos) # {}
     /\ Peek.kind # tokens[CHOOSE i \in ValuesBefore(pos) :
                              \A j \in ValuesBefore(pos) : i <= j].kind)
        => result' = Semantic("DiffOptionTypes", get_loc(Peek), {})

\* C5 (the tree): when a statement is created, every token between its `=`
\* and its `;` that is not a comma is a literal of the statement's kind.
C5_Created ==
    StatementCreated =>
        LET statement == OwnerStatementsAfter[Len(OwnerStatementsAfter)]
            between == (LastBefore("Eq", pos) + 1)..(pos' - 2)
        IN  /\ Len(OwnerStatementsAfter) > 0
            /\ is_statement_kind(statement.kind)
            /\ \E i \in between : tokens[i].kind # "Comma"
            /\ \A i \in between :
                  tokens[i].kind # "Comma" => tokens[i].kind = statement.kind

\* C5: a literal after a comma of another kind than the first literal is
\* DiffOptionTypes, so all the literals of an accepted statement have one
\* kind, the statement's `kind`.
C5_SameKindValues == [][C5_Mismatch /\ C5_Created]_vars

\* parse has returned DiffOptionTypes for a list with a value already in it.
C5_Witness ==
    /\ result.kind = "DiffOptionTypes"
    /\ Len(stmt.str_vals) >= 1
    /\ tokens[pos - 1].kind = "Comma"

VersionDirective ==
    << <<"Directive", "!version">>, <<"Eq", "=">>, <<"String", "1.0.0">>,
       <<"SemiColon", ";">> >>

\* C6: parsing `!version = "1.0.0";` succeeds with exactly one statement in
\* the root (key !version, ident_kind Directive, kind String, value 1.0.0)
\* and no block.
C6_VersionDirective ==
    (Done /\ eof /\ Shape = VersionDirective) =>
        /\ result.status = "ok"
        /\ root.statements = << Statement("!version", "1.0.0", "String", "Directive") >>
        /\ root.blocks = <<>>

\* parse has returned for the four tokens of `!version = "1.0.0";`.
C6_Witness ==
    /\ Shape = VersionDirective
    /\ eof
    /\ result.status = "ok"
    /\ Len(root.statements) = 1

\* C7 (after `=`): a token that is not a String makes parse return
\* UnexpectedToken, located at that token.
C7_NonString ==
    (/\ result.status = "running"
     /\ pc = "values"
     /\ stmt.is_dir
     /\ HasTok(pos)
     /\ Peek.kind # "String")
        => result' = Syntax("UnexpectedToken", get_loc(Peek))

\* C7 (after the string): anything but `;` is rejected and nothing is added
\* to the root.
C7_NoSemiColon ==
    (/\ result.status = "running"
     /\ pc = "values"
     /\ stmt.is_dir
     /\ Ready
     /\ HasTok(pos)
     /\ Peek.kind = "String"
     /\ ~(HasTok(pos + 1) /\ tokens[pos + 1].kind = "SemiColon"))
        => /\ result'.status = "err"
           /\ result'.class = "Syntax"
           /\ result'.kind = IF HasTok(pos + 1) THEN "UnexpectedToken" ELSE "NoToken"
           /\ root' = root

\* C7 (accepted): every directive statement comes from the four tokens
\* Directive `=` String `;`, and its value is the lexeme of that one String.
C7_Accepted ==
    \A k \in 1..Len(root.statements) :
        LET s == root.statements[k]
        IN  /\ s.ident_kind = "Directive"
            /\ s.kind = "String"
            /\ \E i \in 1..(pos - 4) :
                  /\ tokens[i].kind = "Directive" /\ tokens[i].lexeme = s.key
                  /\ tokens[i + 1].kind = "Eq"
                  /\ tokens[i + 2].kind = "String" /\ tokens[i + 2].lexeme = s.value
                  /\ tokens[i + 3].kind = "SemiColon"

\* C7: a directive statement is accepted only as `=`, one String, `;`.
C7_DirectiveOneString ==
    /\ []C7_Accepted
    /\ [][C7_NonString /\ C7_NoSemiColon]_vars

\* parse has rejected a comma that follows the string of a directive.
C7_Witness ==
    /\ result.status = "err"
    /\ pc = "values"
    /\ stmt.is_dir
    /\ HasTok(pos)
    /\ Peek.kind = "Comma"
    /\ tokens[pos - 1].kind = "String"

\* The naming violations the header checks report: a name of more than one
\* character listed twice, or two different names of one character.
NamingViolation(ids) ==
    \/ \E i, j \in 1..Len(ids) : i < j /\ ids[i] = ids[j] /\ Len(ids[i]) > 1
    \/ Cardinality(ShortNames(ids)) > 1

NamingErrors == {"ExtraShortName", "DuplicateName"}

\* C8 as claimed: parse returns the error of the earliest offending token; a
\* naming violation among the header identifiers already consumed comes
\* before any token met later in that header, so an error raised in a header
\* after such a violation is the naming error.
C8_EarliestViolationReported ==
    (result.status = "err" /\ pc = "header" /\ NamingViolation(Top.block.identifiers))
        => result.class = "Semantic" /\ result.kind \in NamingErrors

\* The tokens after the keyword at index kw and before index p alternate
\* Identifier, `/`, Identifier, ...
HeaderShape(kw, p) ==
    \A i \in (kw + 1)..(p - 1) :
        tokens[i].kind = IF (i - kw) % 2 = 1 THEN "Identifier" ELSE "Alt"

\* The token at index p cannot continue a header that began at keyword kw.
BreaksHeader(kw, p) ==
    IF (p - kw) % 2 = 1 THEN tokens[p].kind # "Identifier"
    ELSE tokens[p].kind \notin {"Alt", "OpenBrace"}

\* An error was raised inside the header loop, at the token peeked.
RaisedInLoop ==
    /\ result.status = "err"
    /\ pc = "header"
    /\ HasTok(pos)
    /\ tokens[pos - 1].kind # "OpenBrace"

\* An error was raised after the header loop: the loop was left at `{` or at
\* the end of the tokens.
RaisedAfterLoop ==
    /\ result.status = "err"
    /\ pc = "header"
    /\ ~(HasTok(pos) /\ tokens[pos - 1].kind # "OpenBrace")

\* The blocks whose header has been parsed and accepted.
PastHeader ==
    TreeBlocks
      \cup UNION {AllBlocks(stack[i].block.blocks) : i \in 1..Len(stack)}
      \cup {stack[i].block :
              i \in {j \in 1..Len(stack) : j < Len(stack) \/ pc \notin {"block", "header"}}}

\* C8, amended: in a block header parse returns the first error it raises.
\* An UnexpectedToken is raised at the first token that breaks the shape
\* Identifier (`/` Identifier)* `{`, whether or not an identifier before it
\* broke a naming rule; a naming error is raised only once the header loop
\* has ended (ExtraShortName if two different short names were listed,
\* otherwise DuplicateName), and no header with a naming violation is accepted.
C8_FirstRaisedErrorInHeader ==
    LET kw == LastBefore("Keyword", pos)
        ids == Top.block.identifiers
    IN  /\ RaisedInLoop =>
              /\ result = Syntax("UnexpectedToken", get_loc(Peek))
              /\ HeaderShape(kw, pos)
              /\ BreaksHeader(kw, pos)
        /\ RaisedAfterLoop =>
              /\ result.class = "Semantic"
              /\ NamingViolation(ids)
              /\ result.kind = IF Cardinality(ShortNames(ids)) > 1
                               THEN "ExtraShortName" ELSE "DuplicateName"
        /\ (result.status = "running" /\ pc = "header") => HeaderShape(kw, pos)
        /\ \A b \in PastHeader : ~NamingViolation(b.identifiers)

\* parse has returned UnexpectedToken for a token of a header in which an
\* identifier before it had broken a naming rule.
C8_Witness ==
    /\ RaisedInLoop
    /\ result.kind = "UnexpectedToken"
    /\ NamingViolation(Top.block.identifiers)

\* C19: when the CloseBrace of a block that holds no statement and no nested
\* block is consumed, the "empty block" tip is printed for that brace, the
\* block is attached and the parse goes on.
C19_EmptyBlockTip ==
    [][(/\ result.status = "running"
        /\ pc = "body"
        /\ Ready
        /\ HasTok(pos)
        /\ Peek.kind = "CloseBrace"
        /\ Top.block.statements = <<>>
        /\ Top.block.blocks = <<>>)
          => /\ tips' = Append(tips, Tip("Redundant argument: empty block", get_loc(Peek)))
             /\ result'.status = "running"
             /\ Attached' = Attached + 1]_vars

\* The lexemes of the literals among tokens i..j, in order.
RECURSIVE LiteralLexemes(_, _)
LiteralLexemes(i, j) ==
    IF i > j THEN <<>>
    ELSE IF is_statement_kind(tokens[i].kind)
    THEN <<tokens[i].lexeme>> \o LiteralLexemes(i + 1, j)
    ELSE LiteralLexemes(i + 1, j)

\* The first literal of the value list is next and only commas stand between
\* it and the `=`.
AfterLeadingComma ==
    /\ result.status = "running"
    /\ pc = "values"
    /\ ~stmt.is_dir
    /\ Ready
    /\ HasTok(pos)
    /\ is_statement_kind(Peek.kind)
    /\ tokens[pos - 1].kind = "Comma"
    /\ ValuesBefore(pos) = {}

\* C20 (the tip): a first literal that follows a comma prints the "redundant
\* comma" tip for that comma, and the parse goes on with the literal as the
\* first value; nothing of the tree changes.
C20_Tip ==
    AfterLeadingComma =>
        /\ tips' = Append(tips, Tip("Redundant comma before value", get_loc(tokens[pos - 1])))
        /\ result' = result
        /\ stmt'.str_vals = <<Peek.lexeme>>
        /\ stmt'.val_kind = Peek.kind
        /\ pc' = pc /\ pos' = pos + 1
        /\ root' = root /\ stack' = stack

\* C20 (the tree): the statement created for a value list is made of the
\* literals between its `=` and its `;` alone, their lexemes joined by commas
\* and the kind of the first one: what the same list without the commas that
\* come before its first literal gives; and it is what is added to the tree.
C20_SameStatement ==
    (StatementCreated /\ ~stmt.is_dir) =>
        LET eq == LastBefore("Eq", pos)
            first == CHOOSE i \in ValuesBefore(pos) : \A j \in ValuesBefore(pos) : i <= j
            before == IF stmt.parent = "Some" THEN Top.block.statements
                      ELSE root.statements
        IN  /\ ValuesBefore(pos) # {}
            /\ OwnerStatementsAfter =
                  Append(before,
                         Statement(tokens[eq - 1].lexeme,
                                   Join(LiteralLexemes(eq + 1, pos - 1)),
                                   tokens[first].kind, "Identifier"))
            /\ tips' = tips

\* C20: tips are non-fatal: a comma before the first literal of a value list
\* prints the "redundant comma" tip, the parse goes on, and the tree is the
\* one of the same input without that comma.
C20_RedundantCommaIsHarmless == [][C20_Tip /\ C20_SameStatement]_vars

\* A block whose statement began with a comma has been parsed to its end.
C20_Witness ==
    /\ result.status = "ok"
    /\ tips # <<>>
    /\ tips[1].msg = "Redundant comma before value"
    /\ root.blocks # <<>>
    /\ root.blocks[1].statements # <<>>

\* parse has ended in the value loop of a statement, at the end of the
\* tokens: the tokens end after the `=` or after a value, before the `;`.
EndsInStatement == Done /\ pc = "values" /\ ~HasTok(pos)

\* C23: parse returns Ok or a ParseError and never aborts; when the tokens
\* end after the `=` of a statement or after one of its values, before the
\* `;`, it returns the syntax error NoToken.
C23_EndInStatementIsNoToken ==
    /\ result.status # "panic"
    /\ EndsInStatement =>
          /\ result.status = "err"
          /\ result.class = "Syntax"
          /\ result.kind = "NoToken"

-----------------------------------------------------------------------------
(* Properties of main *)

\* The invocation is invalid: missing or extra arguments, a missing file, or
\* a file whose extension is not `argol`.
InvalidInvocation ==
    cli.args_len # 2 \/ ~cli.exists \/ cli.extension # "argol"

\* C11: the process exits with status 2 on an invalid invocation, and
\* otherwise with status 0 when parse succeeded and 1 when it reported an error.
C11_ExitCodes ==
    cli.exited =>
        cli.code = IF InvalidInvocation THEN 2
                   ELSE IF result.status = "ok" THEN 0
                   ELSE 1

-----------------------------------------------------------------------------
(* Properties of the lexer *)

LexDone == lexed.status # "running"

TokenIds == 1..Len(lex.tokens)

\* The characters of the text that token k was made from.
SourceText(k) == SubSeq(content, lex.spans[k].first, lex.spans[k].last)

\* The place of the last newline before place i of the text (0: none).
RECURSIVE LastNewline(_)
LastNewline(i) ==
    IF i <= 1 THEN 0
    ELSE IF content[i - 1] = "\n" THEN i - 1
    ELSE LastNewline(i - 1)

\* The column of the character at place i: 1 plus the characters between the
\* last newline before it and itself.
ColumnOf(i) == i - LastNewline(i)

\* C12: the `col` of every token is the column of the token's first
\* character.
C12_ColIsFirstColumn ==
    \A k \in TokenIds : lex.tokens[k].col = ColumnOf(lex.spans[k].first)

Signs == {"+", "-"}

\* C13 (tokens): no Int or Float token has a lexeme that starts with two sign
\* characters.
C13_NoTwoSignToken ==
    \A k \in TokenIds :
        lex.tokens[k].kind \in {"Int", "Float"} =>
            ~(/\ Len(lex.tokens[k].lexeme) >= 2
              /\ lex.tokens[k].lexeme[1] \in Signs
              /\ lex.tokens[k].lexeme[2] \in Signs)

\* C13: a number that starts with more than one sign character is rejected
\* with InvalidNumberSign: no token starts with two signs, and when the lexer
\* stops inside a number that has two leading signs and a digit, it stops
\* with InvalidNumberSign.
C13_TwoSignsRejected ==
    /\ C13_NoTwoSignToken
    /\ (/\ lex.pc \notin {"scan", "comment", "string", "ident"}
        /\ Len(num.lexeme) >= 2
        /\ num.lexeme[1] \in Signs
        /\ num.lexeme[2] \in Signs
        /\ \E i \in 3..Len(num.lexeme) : is_ascii_digit(num.lexeme[i])
        /\ LexDone)
           => lexed.msg = InvalidNumberSign

\* The text t has a decimal point, digits, and a second decimal point.
HasSecondPoint(t) ==
    \E i, j \in 1..Len(t) :
        /\ t[i] = "."
        /\ t[j] = "."
        /\ j > i + 1
        /\ \A m \in (i + 1)..(j - 1) : is_ascii_digit(t[m])

\* C14: a literal with a second decimal point after its fractional digits
\* never yields a token.
C14_ExtraDecimalPoint ==
    \A k \in TokenIds :
        lex.tokens[k].kind # "String" => ~HasSecondPoint(SourceText(k))

RangeKinds == {"ExclusiveRange", "InclusiveRange"}

Chars(t) == {t[i] : i \in 1..Len(t)}

\* The kind the claim gives a range by its text.
RangeKindOf(t) == IF "=" \in Chars(t) THEN "InclusiveRange" ELSE "ExclusiveRange"

FirstDot(t) == CHOOSE i \in 1..Len(t) : t[i] = "." /\ \A j \in 1..(i - 1) : t[j] # "."

\* No digit is written before the first `.`: the left endpoint is omitted.
LeftOmitted(t) ==
    \A j \in 1..(FirstDot(t) - 1) : ~(is_ascii_digit(t[j]) \/ t[j] = "_")

\* No digit and no `*` is written after the first `.`: the right endpoint is
\* omitted.
RightOmitted(t) ==
    \A j \in (FirstDot(t) + 1)..Len(t) : ~(is_ascii_digit(t[j]) \/ t[j] \in {"_", "*"})

\* The source text of a range with `0` written for an omitted left endpoint
\* and `*` for an omitted right endpoint.
WithEndpoints(t) ==
    LET left == IF LeftOmitted(t) THEN Insert(t, FirstDot(t) - 1, "0") ELSE t
    IN  IF RightOmitted(t) THEN Append(left, "*") ELSE left

\* The text is digits, `..` or `..=`, digits.
IsClosedRange(t) ==
    \E i \in 2..(Len(t) - 2) :
        /\ \A j \in 1..(i - 1) : is_ascii_digit(t[j])
        /\ t[i] = "." /\ t[i + 1] = "."
        /\ LET from == IF t[i + 2] = "=" THEN i + 3 ELSE i + 2
           IN  /\ from <= Len(t)
               /\ \A j \in from..Len(t) : is_ascii_digit(t[j])

RECURSIVE ClaimedString(_, _, _)
ClaimedString(t, i, acc) ==
    IF i > Len(t) \/ t[i] = "\n"
    THEN [close |-> 0, lexeme |-> acc]
    ELSE IF t[i] = "\""
    THEN [close |-> i, lexeme |-> acc]
    ELSE IF t[i] = "\\"
    THEN IF i + 1 <= Len(t) /\ escaped_char(t[i + 1]) # "None"
         THEN ClaimedString(t, i + 2, Append(acc, escaped_char(t[i + 1])))
         ELSE [close |-> 0, lexeme |-> acc]
    ELSE ClaimedString(t, i + 1, Append(acc, t[i]))

\* Token k is a string that a quote closed.
ClosedString(k) ==
    /\ lex.tokens[k].kind = "String"
    /\ Len(SourceText(k)) >= 2
    /\ SourceText(k)[Len(SourceText(k))] = "\""

\* C16: in a string a backslash and one of the five escape characters stand
\* for one character of the lexeme and do not end the string, the characters
\* after the escape are ordinary, InvalidStrEsc is raised only for the
\* character right after a backslash, and UnterminatedStr only at a newline.
C16_StringEscapes ==
    /\ \A k \in TokenIds :
          ClosedString(k) =>
            /\ ClaimedString(SourceText(k), 2, <<>>).close = Len(SourceText(k))
            /\ ClaimedString(SourceText(k), 2, <<>>).lexeme = lex.tokens[k].lexeme
    /\ lexed.msg = InvalidStrEsc =>
          /\ content[lex.chars - 1] = "\\"
          /\ escaped_char(LexPeek) = "None"
    /\ lexed.msg = UnterminatedStr => LexPeek = "\n"

\* The text of a token is a decimal literal with an exponent marker.
HasExponent(t) ==
    /\ Chars(t) \cap {"x", "o", "b"} = {}
    /\ Chars(t) \cap {"e", "E"} # {}

\* The places of the digits after the exponent marker of a text that has one.
ExponentDigits(t) ==
    LET m == CHOOSE i \in 1..Len(t) : t[i] \in {"e", "E"}
                                         /\ \A j \in 1..(i - 1) : t[j] \notin {"e", "E"}
    IN  {i \in (m + 1)..Len(t) : is_ascii_digit(t[i])}

\* The characters parse_number has consumed so far.
NumberText == SubSeq(content, lex.first, lex.chars - 1)

\* C17: a decimal literal with an exponent marker and no exponent digit is
\* the error NoFloatExp, an illegal character in the exponent is the error
\* InvalidFloatExpChars, and an accepted literal with an exponent marker is a
\* Float token with at least one exponent digit.
C17_Exponent ==
    /\ \A k \in TokenIds :
          (lex.tokens[k].kind \in {"Int", "Float"} /\ HasExponent(SourceText(k))) =>
            /\ lex.tokens[k].kind = "Float"
            /\ ExponentDigits(SourceText(k)) # {}
    /\ (lexed.status = "exit" /\ lex.pc = "exp") =>
          lexed.msg = IF ExponentDigits(NumberText) = {} THEN NoFloatExp
                      ELSE InvalidFloatExpChars

\* The places of the text that belong to a token.
InToken == UNION { lex.spans[k].first .. lex.spans[k].last : k \in TokenIds }

\* Place i of the text is in a comment: after a `#` that is in no token, on
\* the same line.
InComment(i) ==
    \E j \in 1..i :
        /\ content[j] = "#"
        /\ j \notin InToken
        /\ \A m \in j..i : content[m] # "\n"

\* The source text that the lexeme of token k stands for: for a string, the
\* characters between its quotes.
Written(k) ==
    IF lex.tokens[k].kind # "String" THEN SourceText(k)
    ELSE IF ClosedString(k) THEN SubSeq(SourceText(k), 2, Len(SourceText(k)) - 1)
    ELSE SubSeq(SourceText(k), 2, Len(SourceText(k)))

\* C18: the lexeme of every token is the source text of the token (escapes
\* in a string set aside), and every character of a tokenized text is in a
\* token, is whitespace or is comment text, so that the lexemes and the
\* separators give the text back.
C18_RoundTrip ==
    /\ \A k \in TokenIds :
          "\\" \notin Chars(Written(k)) => lex.tokens[k].lexeme = Written(k)
    /\ lexed.status = "ok" =>
          \A i \in 1..Len(content) :
              i \in InToken \/ is_whitespace(content[i]) \/ InComment(i)

\* The newline characters of the text before place i.
NewlinesBefore(i) == {j \in 1..(i - 1) : content[j] = "\n"}

\* C21: the `line` of every token is 1 plus the number of newline characters
\* of the text before the token's first character, whether or not comments
\* come before it: a comment ends before its newline, and the newline is
\* counted once.  The tokens looked at are those with no string before
\* them, so that the text before them is whitespace, comments and tokens of
\* one line.
C21_LineCountsNewlines ==
    \A k \in TokenIds :
        (\A j \in 1..(k - 1) : lex.tokens[j].kind # "String") =>
            lex.tokens[k].line = 1 + Cardinality(NewlinesBefore(lex.spans[k].first))

\* C22: the lexer terminates on every finite text: tokenize returns or the
\* process exits, whatever the next character of a turn of the main loop is,
\* the last character of the text included.
C22_Terminates == <>LexDone

\* The places of the text that the main loop has gone past.
Scanned == {i \in 1..Len(content) : i < lex.chars}

\* C24: between two tokens the lexer goes past nothing but whitespace and
\* comment text: every character it has gone past when it is at the start
\* of a turn of the main loop is in a token, is whitespace or is in a comment.
C24_NothingSkipped ==
    lex.pc = "scan" =>
        \A i \in Scanned :
            i \in InToken \/ is_whitespace(content[i]) \/ InComment(i)

====
